---- MODULE Spec2Model ----
(***************************************************************************)
(* Django Project Assistant: the scaffolding pipeline of main.py (a worker *)
(* thread reporting to the Tk UI thread through root.after), the server    *)
(* process lifecycle, the version refresh, and the pure helpers of         *)
(* project_logic.py (patch_settings, inject_external_libraries,            *)
(* is_python_version_installed).                                           *)
(*                                                                         *)
(* Spec        the application: UI thread, pipeline worker, refresh        *)
(*             worker, server process and its output reader.               *)
(* FairSpec    Spec with the scheduling the Tk main loop and the thread    *)
(*             scheduler give.                                             *)
(* SpecPatch   patch_settings applied repeatedly to a settings file.       *)
(* SpecInject  inject_external_libraries applied to a base template.       *)
(* SpecProbe   is_python_version_installed and its module-level cache.     *)
(* SpecList    get_python_versions_via_uv_blocking on an output of uv.     *)
(* SpecRead    _stream_server_output and the callbacks it registers, for   *)
(*             one server and the lines it writes.                         *)
(***************************************************************************)
EXTENDS Integers, Sequences, FiniteSets, TLC

VARIABLES
  \* ---- environment the pipeline meets
  uvAvailable,    \* shutil.which("uv") is not None
  projDir,        \* <project_path>/<name>: "absent" | "empty" | "nonempty"
  venvDir,        \* <venv_path>/<name>:    "absent" | "empty" | "nonempty"
  tmplExists,     \* html_templates/<collection> exists (relative to the cwd)
  coreDir,        \* <project>/core exists
  \* ---- UI thread (Tk)
  formState,      \* state of every button/checkbutton but btn_start and chk_superuser
  btnText,        \* btn_start's text; its command is switched with it
  btnState,       \* btn_start's state
  chkSuperState,  \* chk_superuser's state
  customUserVar,  \* custom_user_var
  superuserVar,   \* create_superuser_var
  afterQ,         \* callbacks registered with root.after(0, ...), oldest first
  delayedInfo,    \* the root.after(100, showinfo) timer is pending
  console,        \* rows added to console_tree since the user's last action on the form
  dialogs,        \* dialogs shown since the user's last action on the form
  closed,         \* root.destroy() was called
  cfg,            \* the persisted configuration structure (self.cfg): its cached versions
  pyVersionVar,   \* python_version_var is non-empty
  \* ---- pipeline worker (_project_worker_thread)
  pc,             \* position of the worker, "idle" when no worker runs
  data,           \* the request record built by _on_start
  err,            \* str(e) of the exception the worker caught, "" if none
  trace,          \* effects of the run, in order: [op, rc], rc the exit code of a command
                  \* (data, err and trace are kept until the user's next action on the form)
  \* ---- server process and its reader thread
  handleProc,     \* server_process["proc"]: "none", or the state of the process it names
  orphans,        \* live server processes the handle no longer names
  reader,         \* _stream_server_output thread of the handle's process
  termSent,       \* a terminate request was sent to the handle's process
  \* ---- refresh worker (_refresh_worker)
  rpc,
  \* ---- patch_settings
  settings,       \* the settings.py content: its two lists and the patched parts
  pkgs,           \* the selected package descriptors, in configuration order
  customFlag,     \* custom_user_flag
  nPatched,       \* number of applications of patch_settings so far
  \* ---- inject_external_libraries
  baseHtml,       \* content of base.html, a sequence of tokens ("missing" file: <<>> and FALSE)
  baseExists,
  tpl0,           \* the content before the injection
  libs,           \* the selected asset descriptors, in configuration order
  injected,       \* inject_external_libraries has returned
  \* ---- is_python_version_installed
  installedCache, \* _installed_cache: key -> result, as a set of <<key, result>>
  onPath,         \* the major.minor keys some interpreter found on PATH reports
  lastVer,        \* argument of the last call, <<>> before any
  lastResult,     \* its result
  lastProbed,     \* it ran probe subprocesses
  firstResult,    \* key -> result of the first call for that key
  nCalls,
  \* ---- get_python_versions_via_uv_blocking
  uvOutput,       \* stdout of "uv python list": lines, each a sequence of pieces
  listResult,     \* the list returned
  listOutcome,    \* "none" before the call, then "returned" or "not_found"
  \* ---- _stream_server_output and its listener
  srvLines,       \* the lines the server writes to its output before the stream closes
  nRead,          \* lines the reader has read
  rdPc,           \* the reader: "off", "loop" (line 401) or "done"
  rdQ,            \* callbacks the reader registered with root.after, oldest first
  heard,          \* callbacks of the reader the main loop has run, in order
  rdHandle        \* server_process["proc"]: "proc" or "none"

appVars == <<uvAvailable, projDir, venvDir, tmplExists, coreDir, formState, btnText,
             btnState, chkSuperState, customUserVar, superuserVar, afterQ,
             delayedInfo, console, dialogs, closed, cfg, pyVersionVar, pc, data, err, trace,
             handleProc, orphans, reader, termSent, rpc>>
patchVars == <<settings, pkgs, customFlag, nPatched>>
injectVars == <<baseHtml, baseExists, tpl0, libs, injected>>
probeVars == <<installedCache, onPath, lastVer, lastResult, lastProbed, firstResult, nCalls>>
listVars == <<uvOutput, listResult, listOutcome>>
readVars == <<srvLines, nRead, rdPc, rdQ, heard, rdHandle>>
vars == <<appVars, patchVars, injectVars, probeVars, listVars, readVars>>

(***************************************************************************)
(* Bounds of the model.                                                    *)
(***************************************************************************)
\* callbacks registered with root.after and not yet run by the main loop
MaxPending == 3
\* applications of patch_settings to one file
MaxPatches == 2
\* entries of the middleware list before the first call
MaxPreMw == 2
\* tokens of a base template
MaxTplLen == 4
\* calls of is_python_version_installed
MaxCalls == 3
\* lines of the output of "uv python list"
MaxLines == 3
\* lines a server writes before its output closes
MaxServerLines == 3

DirState == {"absent", "empty", "nonempty"}

(***************************************************************************)
(* Messages.                                                               *)
(***************************************************************************)
MsgProjectNotEmpty == "Project directory already exists and is not empty."
MsgVenvNotEmpty == "Virtual environment directory already exists and is not empty."
MsgUvNotFound == "'uv' is not found in PATH. Please install it from https://astral.sh/uv"
MsgVenvFailed == "Failed to create virtual environment."
MsgNoPython == "Could not find Python executable in venv."
MsgPipFailed == "Failed to install packages."
MsgStartprojectFailed == "Django startproject failed."
MsgCollectionNotFound == "Template collection not found."
MsgNoSuchFile == "[Errno 2] No such file or directory"
MsgPermission == "[Errno 13] Permission denied"

\* the external commands, by the step that runs them
Commands == {"uv venv", "uv pip install", "startproject", "startapp core",
             "startapp accounts", "makemigrations", "migrate", "createsuperuser",
             "runserver"}
\* the file-system effects of the steps
FileEffects == {"mkdir project", "mkdir venv parent", "write core files", "patch urls",
                "write accounts files", "patch settings", "copy templates",
                "inject libraries"}

\* entries of the trace: the operation, the exit code of a command, what is looked
\* for in its output, and the thread that carried it out
SuccessPhrase == "Superuser created successfully"
CmdOut(op, rc, out) == [op |-> op, rc |-> rc, out |-> out, by |-> "worker"]
Cmd(op, rc) == CmdOut(op, rc, <<>>)
Eff(op) == Cmd(op, 0)
UiCmd(op) == [op |-> op, rc |-> 0, out |-> <<>>, by |-> "ui"]
Ops(t) == {t[i].op : i \in 1..Len(t)}

\* rows of the console: <<kind, text>>
Status(msg) == <<"status", msg>>
Log(cmd) == <<"log", cmd>>
Aborted(msg) == <<"status", "Process aborted: ", msg>>

\* a registered callback
Cb(name, arg) == [cb |-> name, arg |-> arg]
AppendCb(row) == Cb("append", row)

Room(n) == Len(afterQ) + n <= MaxPending

\* the request record; projFull and venvFull note whether the two target
\* directories held something when the request was made
NoData == [run |-> FALSE, custom |-> FALSE, browser |-> FALSE, creds |-> FALSE, libs |-> FALSE,
           projFull |-> FALSE, venvFull |-> FALSE]

(***************************************************************************)
(* _toggle_widgets_state(main_frame, new): every button and checkbutton    *)
(* takes the new state, except btn_start while it reads "Stop Server".     *)
(***************************************************************************)
ToggleWidgets(new) ==
  /\ formState' = new
  /\ chkSuperState' = new
  /\ btnState' = IF btnText = "Stop Server" THEN btnState ELSE new

(***************************************************************************)
(* UI thread: the handlers of the user's events.                           *)
(***************************************************************************)
pipeVars == <<pc, data, err, trace>>
envVars == <<uvAvailable, projDir, venvDir, tmplExists, coreDir>>
serverVars == <<handleProc, orphans, reader, termSent>>
formVars == <<formState, btnText, btnState, chkSuperState>>
checkVars == <<customUserVar, superuserVar>>
otherSpecs == <<patchVars, injectVars, probeVars, listVars, readVars>>

\* the record of the last run is dropped at the user's next action on the form
ForgetRun == data' = NoData /\ err' = "" /\ trace' = <<>>

\* _on_start stopped by one of its checks: a dialog, and nothing else changes.
OnStartRejected ==
  /\ ~closed /\ btnState = "normal" /\ btnText = "Create Project"
  /\ \E filled, nameOk, tmplSel, cancelled \in BOOLEAN :
       /\ dialogs' =
            IF ~(filled /\ pyVersionVar)
              THEN {<<"Validation", "Please fill in all project and virtual environment fields.">>}
            ELSE IF ~nameOk
              THEN {<<"Invalid Project Name", "Project name must contain only letters, numbers, and underscores.">>}
            ELSE IF ~tmplSel
              THEN {<<"Validation", "No template collection selected or found.">>}
            ELSE {<<"Cancelled", "Project creation cancelled by user.">>}
       /\ (filled /\ pyVersionVar /\ nameOk /\ tmplSel) => (superuserVar /\ cancelled)
  /\ console' = {}
  /\ ForgetRun
  /\ UNCHANGED <<envVars, formVars, checkVars, afterQ, delayedInfo, closed, cfg,
                 pyVersionVar, pc, serverVars, rpc, otherSpecs>>

\* _on_start with every check passed: the choices are saved, the request record is
\* built, the console cleared, the form disabled and the worker started.  The
\* state of the file system the request meets is drawn here.  The model carries
\* one pipeline worker, so a request is taken up once the previous worker has
\* returned from its last statement (line 369).
OnStart ==
  /\ ~closed /\ btnState = "normal" /\ btnText = "Create Project"
  /\ pyVersionVar /\ pc = "idle"
  /\ \E ob, lb, uv, tm \in BOOLEAN, pd, vd \in DirState :
       /\ data' = [run |-> TRUE, custom |-> customUserVar, browser |-> ob, creds |-> superuserVar,
                   libs |-> lb, projFull |-> (pd = "nonempty"),
                   venvFull |-> (vd = "nonempty")]
       /\ uvAvailable' = uv /\ tmplExists' = tm /\ projDir' = pd /\ venvDir' = vd
  /\ coreDir' = FALSE
  /\ console' = {}
  /\ dialogs' = {}
  /\ ToggleWidgets("disabled")
  /\ pc' = "validate" /\ err' = "" /\ trace' = <<>>
  /\ UNCHANGED <<btnText, checkVars, afterQ, delayedInfo, closed, cfg, pyVersionVar,
                 serverVars, rpc, otherSpecs>>

\* "Use custom user model" clicked: the variable flips, then _toggle_superuser_option.
ToggleCustomUser ==
  /\ ~closed /\ formState = "normal"
  /\ customUserVar' = ~customUserVar
  /\ IF customUserVar'
       THEN chkSuperState' = "normal" /\ superuserVar' = superuserVar
       ELSE chkSuperState' = "disabled" /\ superuserVar' = FALSE
  /\ console' = {} /\ dialogs' = {}
  /\ ForgetRun
  /\ UNCHANGED <<envVars, formState, btnText, btnState, afterQ, delayedInfo,
                 closed, cfg, pyVersionVar, pc, serverVars, rpc, otherSpecs>>

\* "Create superuser" clicked.
ToggleSuperuser ==
  /\ ~closed /\ chkSuperState = "normal"
  /\ superuserVar' = ~superuserVar
  /\ console' = {} /\ dialogs' = {}
  /\ ForgetRun
  /\ UNCHANGED <<envVars, formVars, customUserVar, afterQ, delayedInfo,
                 closed, cfg, pyVersionVar, pc, serverVars, rpc, otherSpecs>>

\* _on_stop_server: a live process is sent the terminate request.
OnStopServer ==
  /\ ~closed /\ btnState = "normal" /\ btnText = "Stop Server"
  /\ IF handleProc = "live"
       THEN /\ console' = console \cup {Status("Stopping development server...")}
            /\ termSent' = TRUE
       ELSE UNCHANGED <<console, termSent>>
  /\ UNCHANGED <<envVars, formVars, checkVars, afterQ, delayedInfo, dialogs, closed, cfg,
                 pyVersionVar, pipeVars, handleProc, orphans, reader, rpc, otherSpecs>>

\* root.destroy(): the widgets and the callbacks still registered go with the
\* window, and the record of the last run is dropped with them
Destroy ==
  /\ closed' = TRUE
  /\ afterQ' = <<>> /\ delayedInfo' = FALSE
  /\ console' = {} /\ dialogs' = {}
  /\ ForgetRun

\* OnClose destroying the window without the stop request
OnClose_NoStop ==
  /\ ~closed
  /\ Destroy
  /\ UNCHANGED <<envVars, formVars, checkVars, cfg,
                 pyVersionVar, pc, serverVars, rpc, otherSpecs>>

\* _on_close (WM_DELETE_WINDOW): save the choices, stop a live server, destroy.
OnClose ==
  /\ ~closed
  /\ termSent' = (termSent \/ handleProc = "live")
  /\ Destroy
  /\ UNCHANGED <<envVars, formVars, checkVars, cfg,
                 pyVersionVar, pc, handleProc, orphans, reader, rpc, otherSpecs>>

\* The Exit button: root.destroy, nothing else.
OnExit ==
  /\ ~closed /\ formState = "normal"
  /\ Destroy
  /\ UNCHANGED <<envVars, formVars, checkVars, cfg,
                 pyVersionVar, pc, serverVars, rpc, otherSpecs>>

\* _start_refresh_python_versions: disable the form, start the refresh worker.
StartRefresh ==
  /\ ~closed /\ formState = "normal"
  /\ ToggleWidgets("disabled")
  /\ console' = {Status("Refreshing Python versions via 'uv'...")}
  /\ dialogs' = {}
  /\ ForgetRun
  /\ rpc' = "run"
  /\ uvAvailable' \in BOOLEAN
  /\ UNCHANGED <<projDir, venvDir, tmplExists, coreDir, btnText, checkVars, afterQ,
                 delayedInfo, closed, cfg, pyVersionVar, pc, serverVars, otherSpecs>>

(***************************************************************************)
(* The pipeline worker, _project_worker_thread.  Each step registers its   *)
(* console rows with root.after(0, ...); a step waits for room among the   *)
(* pending callbacks.  A raised exception takes the worker to the except   *)
(* clause (pc "except1").                                                  *)
(***************************************************************************)
uiVars == <<formVars, checkVars, delayedInfo, console, dialogs, closed, cfg, pyVersionVar>>

Raise(msg) == pc' = "except1" /\ err' = msg

Post(cbs) == afterQ' = afterQ \o cbs

\* what a worker step leaves alone besides the variables it names
WorkerFrame == UNCHANGED <<uiVars, data, serverVars, rpc, otherSpecs>>

\* W_Validate without the check of the environment directory
W_Validate_ProjectOnly ==
  /\ ~closed /\ pc = "validate" /\ Room(1)
  /\ Post(<<AppendCb(Status("Validating paths..."))>>)
  /\ IF projDir = "nonempty" THEN Raise(MsgProjectNotEmpty)
     ELSE pc' = "check_uv" /\ err' = err
  /\ UNCHANGED <<envVars, trace>>
  /\ WorkerFrame

\* lines 315-321: the two target directories must not hold anything
W_Validate ==
  /\ ~closed /\ pc = "validate" /\ Room(1)
  /\ Post(<<AppendCb(Status("Validating paths..."))>>)
  /\ IF projDir = "nonempty" THEN Raise(MsgProjectNotEmpty)
     ELSE IF venvDir = "nonempty" THEN Raise(MsgVenvNotEmpty)
     ELSE pc' = "check_uv" /\ err' = err
  /\ UNCHANGED <<envVars, trace>>
  /\ WorkerFrame

\* W_CheckUv going on whatever check_uv_available returns
W_CheckUv_Ignored ==
  /\ ~closed /\ pc = "check_uv" /\ Room(1)
  /\ Post(<<AppendCb(Status("Starting project creation..."))>>)
  /\ pc' = "mkdirs" /\ err' = err
  /\ UNCHANGED <<envVars, trace>>
  /\ WorkerFrame

\* lines 323-326: check_uv_available
W_CheckUv ==
  /\ ~closed /\ pc = "check_uv" /\ Room(1)
  /\ Post(<<AppendCb(Status("Starting project creation..."))>>)
  /\ IF ~uvAvailable THEN Raise(MsgUvNotFound)
     ELSE pc' = "mkdirs" /\ err' = err
  /\ UNCHANGED <<envVars, trace>>
  /\ WorkerFrame

\* lines 328-330: the project directory, then the parent of the environment
W_Mkdirs ==
  /\ ~closed /\ pc = "mkdirs" /\ Room(1)
  /\ \E outcome \in {"ok", "project denied", "parent denied"} :
       IF outcome = "project denied"
         THEN /\ Raise(MsgPermission)
              /\ UNCHANGED <<afterQ, projDir, trace>>
         ELSE /\ projDir' = IF projDir = "absent" THEN "empty" ELSE projDir
              /\ Post(<<AppendCb(Status("Project folder ready"))>>)
              /\ IF outcome = "parent denied"
                   THEN /\ Raise(MsgPermission)
                        /\ trace' = Append(trace, Eff("mkdir project"))
                   ELSE /\ pc' = "venv" /\ err' = err
                        /\ trace' = trace \o <<Eff("mkdir project"), Eff("mkdir venv parent")>>
  /\ UNCHANGED <<uvAvailable, venvDir, tmplExists, coreDir>>
  /\ WorkerFrame

\* lines 331-332 and create_venv_with_uv
W_CreateVenv ==
  /\ ~closed /\ pc = "venv" /\ Room(2)
  /\ Post(<<AppendCb(Status("Running: uv venv")), AppendCb(Log("uv venv"))>>)
  /\ \E rc \in {0, 1} :
       /\ trace' = Append(trace, Cmd("uv venv", rc))
       /\ IF rc = 0 THEN pc' = "find_python" /\ err' = err /\ venvDir' = "nonempty"
          ELSE Raise(MsgVenvFailed) /\ venvDir' = venvDir
  /\ UNCHANGED <<uvAvailable, projDir, tmplExists, coreDir>>
  /\ WorkerFrame

\* lines 333-334 and find_venv_python
W_FindPython ==
  /\ ~closed /\ pc = "find_python"
  /\ \E found \in BOOLEAN :
       IF found THEN pc' = "pip" /\ err' = err ELSE Raise(MsgNoPython)
  /\ UNCHANGED <<envVars, trace, afterQ>>
  /\ WorkerFrame

\* W_PipInstall going on after a nonzero exit
W_PipInstall_Unchecked ==
  /\ ~closed /\ pc = "pip" /\ Room(2)
  /\ Post(<<AppendCb(Status("pip installing")), AppendCb(Log("uv pip install"))>>)
  /\ \E rc \in {0, 1} : trace' = Append(trace, Cmd("uv pip install", rc))
  /\ pc' = "startproject" /\ err' = err
  /\ UNCHANGED envVars
  /\ WorkerFrame

\* lines 335-337 and pip_install_packages: "django" is always in the list
W_PipInstall ==
  /\ ~closed /\ pc = "pip" /\ Room(2)
  /\ Post(<<AppendCb(Status("pip installing")), AppendCb(Log("uv pip install"))>>)
  /\ \E rc \in {0, 1} :
       /\ trace' = Append(trace, Cmd("uv pip install", rc))
       /\ IF rc = 0 THEN pc' = "startproject" /\ err' = err ELSE Raise(MsgPipFailed)
  /\ UNCHANGED envVars
  /\ WorkerFrame

\* lines 338-339 and django_startproject
W_Startproject ==
  /\ ~closed /\ pc = "startproject" /\ Room(2)
  /\ Post(<<AppendCb(Status("Creating Django project...")), AppendCb(Log("startproject"))>>)
  /\ \E rc \in {0, 1} :
       /\ trace' = Append(trace, Cmd("startproject", rc))
       /\ IF rc = 0 THEN pc' = "startapp_core" /\ err' = err /\ projDir' = "nonempty"
          ELSE Raise(MsgStartprojectFailed) /\ projDir' = projDir
  /\ UNCHANGED <<uvAvailable, venvDir, tmplExists, coreDir>>
  /\ WorkerFrame

\* line 340 and django_manage_command: the exit code is not looked at
W_StartappCore ==
  /\ ~closed /\ pc = "startapp_core" /\ Room(2)
  /\ Post(<<AppendCb(Status("Running: manage.py startapp core")), AppendCb(Log("startapp core"))>>)
  /\ \E rc \in {0, 1}, made \in BOOLEAN :
       /\ rc = 0 => made
       /\ coreDir' = made
       /\ trace' = Append(trace, Cmd("startapp core", rc))
  /\ pc' = "core_files"
  /\ UNCHANGED <<uvAvailable, projDir, venvDir, tmplExists, err>>
  /\ WorkerFrame

\* line 341 and create_core_app_files: write_text into core/, which must exist
W_CoreFiles ==
  /\ ~closed /\ pc = "core_files"
  /\ IF coreDir
       THEN pc' = "patch_urls" /\ err' = err /\ trace' = Append(trace, Eff("write core files"))
       ELSE Raise(MsgNoSuchFile) /\ trace' = trace
  /\ UNCHANGED <<envVars, afterQ>>
  /\ WorkerFrame

\* line 342 and patch_project_urls
W_PatchUrls ==
  /\ ~closed /\ pc = "patch_urls"
  /\ trace' = Append(trace, Eff("patch urls"))
  /\ pc' = "accounts"
  /\ UNCHANGED <<envVars, afterQ, err>>
  /\ WorkerFrame

\* lines 343-345: the accounts sub-application, with the custom user model
W_Accounts ==
  /\ ~closed /\ pc = "accounts" /\ Room(2)
  /\ IF data.custom
       THEN /\ Post(<<AppendCb(Status("Running: manage.py startapp accounts")),
                      AppendCb(Log("startapp accounts"))>>)
            /\ \E rc \in {0, 1} :
                 trace' = trace \o <<Cmd("startapp accounts", rc), Eff("write accounts files")>>
       ELSE UNCHANGED <<afterQ, trace>>
  /\ pc' = "settings"
  /\ UNCHANGED <<envVars, err>>
  /\ WorkerFrame

\* lines 346-349: patch_settings
W_PatchSettings ==
  /\ ~closed /\ pc = "settings" /\ Room(1)
  /\ Post(<<AppendCb(Status("Patching settings.py..."))>>)
  /\ trace' = Append(trace, Eff("patch settings"))
  /\ pc' = "templates"
  /\ UNCHANGED <<envVars, err>>
  /\ WorkerFrame

\* W_CreateTemplates without the check that the collection exists
W_CreateTemplates_Unchecked ==
  /\ ~closed /\ pc = "templates" /\ Room(1)
  /\ Post(<<AppendCb(Status("Creating templates..."))>>)
  /\ pc' = "inject" /\ err' = err /\ trace' = Append(trace, Eff("copy templates"))
  /\ UNCHANGED envVars
  /\ WorkerFrame

\* lines 350-351 and create_templates: FileNotFoundError when the collection is missing
W_CreateTemplates ==
  /\ ~closed /\ pc = "templates" /\ Room(1)
  /\ Post(<<AppendCb(Status("Creating templates..."))>>)
  /\ IF tmplExists
       THEN pc' = "inject" /\ err' = err /\ trace' = Append(trace, Eff("copy templates"))
       ELSE Raise(MsgCollectionNotFound) /\ trace' = trace
  /\ UNCHANGED envVars
  /\ WorkerFrame

\* lines 352-354: inject_external_libraries, when a library is selected
W_Inject ==
  /\ ~closed /\ pc = "inject" /\ Room(1)
  /\ IF data.libs
       THEN /\ Post(<<AppendCb(Status("Injecting external libraries into base.html..."))>>)
            /\ trace' = Append(trace, Eff("inject libraries"))
       ELSE UNCHANGED <<afterQ, trace>>
  /\ pc' = "makemigrations"
  /\ UNCHANGED <<envVars, err>>
  /\ WorkerFrame

\* W_Makemigrations raising on a nonzero exit, as the checked commands do
W_Makemigrations_Checked ==
  /\ ~closed /\ pc = "makemigrations" /\ Room(3)
  /\ Post(<<AppendCb(Status("Running migrations...")),
            AppendCb(Status("Running: manage.py makemigrations")),
            AppendCb(Log("makemigrations"))>>)
  /\ \E rc \in {0, 1} :
       /\ trace' = Append(trace, Cmd("makemigrations", rc))
       /\ IF rc = 0 THEN pc' = "migrate" /\ err' = err ELSE Raise(MsgNoSuchFile)
  /\ UNCHANGED envVars
  /\ WorkerFrame

\* lines 355-356
W_Makemigrations ==
  /\ ~closed /\ pc = "makemigrations" /\ Room(3)
  /\ Post(<<AppendCb(Status("Running migrations...")),
            AppendCb(Status("Running: manage.py makemigrations")),
            AppendCb(Log("makemigrations"))>>)
  /\ \E rc \in {0, 1} : trace' = Append(trace, Cmd("makemigrations", rc))
  /\ pc' = "migrate"
  /\ UNCHANGED <<envVars, err>>
  /\ WorkerFrame

\* W_Migrate applying the schema a second time
W_Migrate_Repeats ==
  /\ ~closed /\ pc = "migrate" /\ Room(2)
  /\ Post(<<AppendCb(Status("Running: manage.py migrate")), AppendCb(Log("migrate"))>>)
  /\ \E rc \in {0, 1} : trace' = trace \o <<Cmd("migrate", rc), Cmd("migrate", rc)>>
  /\ pc' = "superuser"
  /\ UNCHANGED <<envVars, err>>
  /\ WorkerFrame

\* line 357
W_Migrate ==
  /\ ~closed /\ pc = "migrate" /\ Room(2)
  /\ Post(<<AppendCb(Status("Running: manage.py migrate")), AppendCb(Log("migrate"))>>)
  /\ \E rc \in {0, 1} : trace' = Append(trace, Cmd("migrate", rc))
  /\ pc' = "superuser"
  /\ UNCHANGED <<envVars, err>>
  /\ WorkerFrame

\* the outputs a createsuperuser command is given, as sequences of lines
SuperuserOutputs ==
  {<<"CommandError">>, <<"Warning", SuccessPhrase>>}

\* project_logic.py line 292: "Superuser created successfully" in out
HasSuccessPhrase(out) == \E i \in 1..Len(out) : out[i] = SuccessPhrase

\* django_create_superuser, lines 292-297: the report, by the phrase in the output
SuperuserReport(out) ==
  IF HasSuccessPhrase(out) THEN "Superuser created successfully."
  ELSE "Warning: Superuser creation may have failed. Check console log."

\* W_Superuser reporting by the exit code of the command
W_Superuser_ByExitCode ==
  /\ ~closed /\ pc = "superuser" /\ Room(3)
  /\ IF data.creds
       THEN \E rc \in {0, 1}, out \in SuperuserOutputs :
               /\ Post(<<AppendCb(Status("Creating superuser...")),
                         AppendCb(Log("createsuperuser")),
                         AppendCb(Status(IF rc = 0 THEN "Superuser created successfully."
                                         ELSE "Warning: Superuser creation may have failed. Check console log."))>>)
               /\ trace' = Append(trace, CmdOut("createsuperuser", rc, out))
       ELSE UNCHANGED <<afterQ, trace>>
  /\ pc' = "finish"
  /\ UNCHANGED <<envVars, err>>
  /\ WorkerFrame

\* lines 359-361 and django_create_superuser: the output decides the report
W_Superuser ==
  /\ ~closed /\ pc = "superuser" /\ Room(3)
  /\ IF data.creds
       THEN \E rc \in {0, 1}, out \in SuperuserOutputs :
               /\ Post(<<AppendCb(Status("Creating superuser...")),
                         AppendCb(Log("createsuperuser")),
                         AppendCb(Status(SuperuserReport(out)))>>)
               /\ trace' = Append(trace, CmdOut("createsuperuser", rc, out))
       ELSE UNCHANGED <<afterQ, trace>>
  /\ pc' = "finish"
  /\ UNCHANGED <<envVars, err>>
  /\ WorkerFrame

\* W_Finish handing every successful run to the server start
W_Finish_AlwaysServer ==
  /\ ~closed /\ pc = "finish" /\ Room(3)
  /\ Post(<<AppendCb(Status("Done!")), Cb("start_dev_server", <<>>)>>)
  /\ pc' = "finish2"
  /\ UNCHANGED <<envVars, err, trace, delayedInfo>>
  /\ WorkerFrame

\* lines 363-368 and 370-372: the end of a successful run; with the browser
\* option the worker has line 369 left once the server start is registered
W_Finish ==
  /\ ~closed /\ pc = "finish" /\ Room(3)
  /\ IF data.browser
       THEN /\ Post(<<AppendCb(Status("Done!")), Cb("start_dev_server", <<>>)>>)
            /\ pc' = "finish2"
       ELSE /\ Post(<<AppendCb(Status("Done!")), Cb("showinfo", <<>>),
                      Cb("toggle_normal", <<>>)>>)
            /\ pc' = "idle"
  /\ UNCHANGED <<envVars, err, trace, delayedInfo>>
  /\ WorkerFrame

\* line 369: the success dialog is registered with a delay; the thread ends
W_Finish2 ==
  /\ ~closed /\ pc = "finish2"
  /\ delayedInfo' = TRUE
  /\ pc' = "idle"
  /\ UNCHANGED <<envVars, err, trace, formVars, checkVars, afterQ, console, dialogs, closed,
                 cfg, pyVersionVar, data, serverVars, rpc, otherSpecs>>

\* line 374: the error dialog is registered as a lambda that reads e when it runs
W_Except1 ==
  /\ ~closed /\ pc = "except1" /\ Room(1)
  /\ Post(<<Cb("showerror_e", <<>>)>>)
  /\ pc' = "except2"
  /\ UNCHANGED <<envVars, err, trace>>
  /\ WorkerFrame

\* line 375: the message is formatted here, in the except clause
W_Except2 ==
  /\ ~closed /\ pc = "except2" /\ Room(1)
  /\ Post(<<AppendCb(Aborted(err))>>)
  /\ pc' = "except3"
  /\ UNCHANGED <<envVars, err, trace>>
  /\ WorkerFrame

\* W_Except3 leaving the except clause without asking for the form to be enabled
W_Except3_NoEnable ==
  /\ ~closed /\ pc = "except3"
  /\ pc' = "idle"
  /\ UNCHANGED <<envVars, err, trace, afterQ>>
  /\ WorkerFrame

\* line 376, and the end of the except clause, which unbinds e
W_Except3 ==
  /\ ~closed /\ pc = "except3" /\ Room(1)
  /\ Post(<<Cb("toggle_normal", <<>>)>>)
  /\ pc' = "idle"
  /\ UNCHANGED <<envVars, err, trace>>
  /\ WorkerFrame

WorkerStep ==
  \/ W_Validate \/ W_CheckUv \/ W_Mkdirs \/ W_CreateVenv \/ W_FindPython
  \/ W_PipInstall \/ W_Startproject \/ W_StartappCore \/ W_CoreFiles \/ W_PatchUrls
  \/ W_Accounts \/ W_PatchSettings \/ W_CreateTemplates \/ W_Inject
  \/ W_Makemigrations \/ W_Migrate \/ W_Superuser \/ W_Finish \/ W_Finish2
  \/ W_Except1 \/ W_Except2 \/ W_Except3

(***************************************************************************)
(* UI thread: the Tk main loop runs the oldest registered callback.        *)
(***************************************************************************)
HeadIs(name) == ~closed /\ afterQ # <<>> /\ Head(afterQ).cb = name

\* _append_to_console: empty text adds nothing
UI_Append ==
  /\ HeadIs("append")
  /\ console' = IF Head(afterQ).arg = <<>> THEN console ELSE console \cup {Head(afterQ).arg}
  /\ afterQ' = Tail(afterQ)
  /\ UNCHANGED <<envVars, formVars, checkVars, delayedInfo, dialogs, closed, cfg,
                 pyVersionVar, pipeVars, serverVars, rpc, otherSpecs>>

\* the lambda of line 374: str(e) is evaluated when the callback runs.  While the
\* worker is still inside the except clause e is bound; once the clause has ended
\* the name is unbound, the lambda raises NameError and no dialog is shown.
UI_ShowErrorE ==
  /\ HeadIs("showerror_e")
  /\ dialogs' = IF pc \in {"except2", "except3"}
                  THEN dialogs \cup {<<"Process Stopped", err>>}
                  ELSE dialogs
  /\ afterQ' = Tail(afterQ)
  /\ UNCHANGED <<envVars, formVars, checkVars, delayedInfo, console, closed, cfg,
                 pyVersionVar, pipeVars, serverVars, rpc, otherSpecs>>

\* lambda: self._toggle_widgets_state(self.main_frame, 'normal')
UI_ToggleNormal ==
  /\ HeadIs("toggle_normal")
  /\ ToggleWidgets("normal")
  /\ afterQ' = Tail(afterQ)
  /\ UNCHANGED <<envVars, btnText, checkVars, delayedInfo, console, dialogs, closed, cfg,
                 pyVersionVar, pipeVars, serverVars, rpc, otherSpecs>>

\* line 371: the success dialog of a run without server
UI_ShowInfo ==
  /\ HeadIs("showinfo")
  /\ dialogs' = dialogs \cup {<<"Success", "Project created">>}
  /\ afterQ' = Tail(afterQ)
  /\ UNCHANGED <<envVars, formVars, checkVars, delayedInfo, console, closed, cfg,
                 pyVersionVar, pipeVars, serverVars, rpc, otherSpecs>>

\* line 369: the success dialog registered with a delay of 100 ms
UI_DelayedInfo ==
  /\ ~closed /\ delayedInfo
  /\ delayedInfo' = FALSE
  /\ dialogs' = dialogs \cup {<<"Success", "Server is starting up.">>}
  /\ UNCHANGED <<envVars, formVars, checkVars, afterQ, console, closed, cfg,
                 pyVersionVar, pipeVars, serverVars, rpc, otherSpecs>>

\* _start_dev_server with Popen succeeding: the handle is set, the reader thread
\* started, the "running" update registered; then the sleep and the browser.
UI_StartDevServer ==
  /\ HeadIs("start_dev_server")
  /\ console' = console \cup {Status("Starting development server...")}
  /\ orphans' = IF handleProc = "live" THEN orphans + 1 ELSE orphans
  /\ handleProc' = "live"
  /\ reader' = "reading"
  /\ termSent' = FALSE
  /\ trace' = trace \o <<UiCmd("runserver"), UiCmd("sleep"), UiCmd("open browser")>>
  /\ afterQ' = Append(Tail(afterQ), Cb("server_running", <<>>))
  /\ UNCHANGED <<envVars, formVars, checkVars, delayedInfo, dialogs, closed, cfg,
                 pyVersionVar, pc, data, err, rpc, otherSpecs>>

\* _start_dev_server with Popen raising: an error dialog, the form enabled again
UI_StartDevServerFails ==
  /\ HeadIs("start_dev_server")
  /\ console' = console \cup {Status("Starting development server...")}
  /\ dialogs' = dialogs \cup {<<"Server Error", "Failed to start dev server">>}
  /\ afterQ' = Append(Tail(afterQ), Cb("toggle_normal", <<>>))
  /\ UNCHANGED <<envVars, formVars, checkVars, delayedInfo, closed, cfg,
                 pyVersionVar, pipeVars, serverVars, rpc, otherSpecs>>

\* UI_ServerRunning leaving the action button as "Create Project"
UI_ServerRunning_NoSwitch ==
  /\ HeadIs("server_running")
  /\ formState' = "disabled"
  /\ chkSuperState' = "disabled"
  /\ btnState' = "normal"
  /\ afterQ' = Tail(afterQ)
  /\ UNCHANGED <<envVars, btnText, checkVars, delayedInfo, console, dialogs, closed, cfg,
                 pyVersionVar, pipeVars, serverVars, rpc, otherSpecs>>

\* _update_ui_for_server_running
UI_ServerRunning ==
  /\ HeadIs("server_running")
  /\ formState' = "disabled"
  /\ chkSuperState' = "disabled"
  /\ btnText' = "Stop Server"
  /\ btnState' = "normal"
  /\ afterQ' = Tail(afterQ)
  /\ UNCHANGED <<envVars, checkVars, delayedInfo, console, dialogs, closed, cfg,
                 pyVersionVar, pipeVars, serverVars, rpc, otherSpecs>>

\* _update_ui_for_server_stopped: the handle is cleared, the button and form restored
UI_ServerStopped ==
  /\ HeadIs("server_stopped")
  /\ console' = console \cup {Status("Server stopped.")}
  /\ orphans' = IF handleProc = "live" THEN orphans + 1 ELSE orphans
  /\ handleProc' = "none"
  /\ reader' = IF handleProc = "live" THEN "none" ELSE reader
  /\ btnText' = "Create Project"
  /\ formState' = "normal"
  /\ chkSuperState' = "normal"
  /\ btnState' = "normal"
  /\ afterQ' = Tail(afterQ)
  /\ UNCHANGED <<envVars, checkVars, delayedInfo, dialogs, closed, cfg,
                 pyVersionVar, pipeVars, termSent, rpc, otherSpecs>>

\* _finish_refresh(True): the combobox is filled from the cached versions
UI_FinishRefreshOk ==
  /\ HeadIs("finish_refresh_ok")
  /\ pyVersionVar' = (cfg.versions = "some")
  /\ console' = console
       \cup (IF cfg.versions = "some" THEN {}
             ELSE {Status("No cached Python versions. Press 'Refresh versions' to fetch from 'uv'.")})
       \cup {Status("Python versions refreshed and cached.")}
  /\ afterQ' = Append(Tail(afterQ), Cb("toggle_normal", <<>>))
  /\ UNCHANGED <<envVars, formVars, checkVars, delayedInfo, dialogs, closed, cfg,
                 pipeVars, serverVars, rpc, otherSpecs>>

\* _finish_refresh(False)
UI_FinishRefreshFailed ==
  /\ HeadIs("finish_refresh_failed")
  /\ console' = console \cup {Status("Refresh failed. 'uv' command might not be available.")}
  /\ afterQ' = Append(Tail(afterQ), Cb("toggle_normal", <<>>))
  /\ UNCHANGED <<envVars, formVars, checkVars, delayedInfo, dialogs, closed, cfg,
                 pyVersionVar, pipeVars, serverVars, rpc, otherSpecs>>

\* line 456: the "uv not found" dialog of the refresh worker
UI_ShowErrorUv ==
  /\ HeadIs("showerror_uv")
  /\ dialogs' = dialogs \cup {<<"uv not found", "'uv' not found in PATH.">>}
  /\ afterQ' = Tail(afterQ)
  /\ UNCHANGED <<envVars, formVars, checkVars, delayedInfo, console, closed, cfg,
                 pyVersionVar, pipeVars, serverVars, rpc, otherSpecs>>

UIStep ==
  \/ UI_Append \/ UI_ShowErrorE \/ UI_ToggleNormal \/ UI_ShowInfo \/ UI_DelayedInfo
  \/ UI_StartDevServer \/ UI_StartDevServerFails \/ UI_ServerRunning \/ UI_ServerStopped
  \/ UI_FinishRefreshOk \/ UI_FinishRefreshFailed \/ UI_ShowErrorUv

(***************************************************************************)
(* The server process and its reader thread, _stream_server_output.        *)
(***************************************************************************)
\* the process ends: by itself, or after the terminate request
ServerExit ==
  /\ ~closed /\ handleProc = "live"
  /\ handleProc' = "exited"
  /\ UNCHANGED <<envVars, uiVars, afterQ, pipeVars, orphans, reader, termSent, rpc,
                 otherSpecs>>

\* line 401: a line of the server's output is forwarded to the console
ReaderLine ==
  /\ ~closed /\ reader = "reading" /\ handleProc = "live" /\ Room(1)
  /\ Post(<<AppendCb(<<"server", "line">>)>>)
  /\ UNCHANGED <<envVars, uiVars, pipeVars, serverVars, rpc, otherSpecs>>

\* ReaderEOF with the "stopped" update run ahead of the callbacks registered before it
ReaderEOF_JumpsQueue ==
  /\ ~closed /\ reader = "reading" /\ handleProc = "exited" /\ Room(1)
  /\ afterQ' = <<Cb("server_stopped", <<>>)>> \o afterQ
  /\ reader' = "none"
  /\ UNCHANGED <<envVars, uiVars, pipeVars, handleProc, orphans, termSent, rpc, otherSpecs>>

\* line 402: the stream has closed
ReaderEOF ==
  /\ ~closed /\ reader = "reading" /\ handleProc = "exited" /\ Room(1)
  /\ Post(<<Cb("server_stopped", <<>>)>>)
  /\ reader' = "none"
  /\ UNCHANGED <<envVars, uiVars, pipeVars, handleProc, orphans, termSent, rpc, otherSpecs>>

(***************************************************************************)
(* The refresh worker, _refresh_worker.                                    *)
(***************************************************************************)
\* lines 450-451, uv having run: the list returned, empty or not, is put into
\* self.cfg by the worker, which then enters save_config
R_Listed ==
  /\ ~closed /\ rpc = "run" /\ uvAvailable
  /\ \E vs \in {"none", "some"} : cfg' = [cfg EXCEPT !.versions = vs]
  /\ rpc' = "save"
  /\ UNCHANGED <<envVars, formVars, checkVars, afterQ, delayedInfo, console, dialogs, closed,
                 pyVersionVar, pipeVars, serverVars, otherSpecs>>

\* lines 452-453: save_config has written the file, the success report is registered
R_Saved ==
  /\ ~closed /\ rpc = "save" /\ Room(1)
  /\ Post(<<Cb("finish_refresh_ok", <<>>)>>)
  /\ rpc' = "idle"
  /\ UNCHANGED <<envVars, uiVars, pipeVars, serverVars, otherSpecs>>

\* R_NotFound forgetting the cached versions
R_NotFound_ClearsCache ==
  /\ ~closed /\ rpc = "run" /\ ~uvAvailable /\ Room(2)
  /\ Post(<<Cb("showerror_uv", <<>>), Cb("finish_refresh_failed", <<>>)>>)
  /\ cfg' = [cfg EXCEPT !.versions = "none"]
  /\ rpc' = "idle"
  /\ UNCHANGED <<envVars, formVars, checkVars, delayedInfo, console, dialogs, closed,
                 pyVersionVar, pipeVars, serverVars, otherSpecs>>

\* FileNotFoundError: the dialog and the failure report are registered
R_NotFound ==
  /\ ~closed /\ rpc = "run" /\ ~uvAvailable /\ Room(2)
  /\ Post(<<Cb("showerror_uv", <<>>), Cb("finish_refresh_failed", <<>>)>>)
  /\ rpc' = "idle"
  /\ UNCHANGED <<envVars, uiVars, pipeVars, serverVars, otherSpecs>>

\* any other exception (save_config cannot write, uv cannot be executed) is not
\* caught: the thread ends and registers nothing
R_Crashed ==
  /\ ~closed /\ rpc \in {"run", "save"}
  /\ rpc' = "idle"
  /\ UNCHANGED <<envVars, uiVars, afterQ, pipeVars, serverVars, otherSpecs>>

(***************************************************************************)
(* patch_settings (project_logic.py).  The settings file is held by the    *)
(* parts the function reads and writes: the entries of the two list        *)
(* literals, whether "import os" is one of the first ten lines, the DIRS   *)
(* entry of TEMPLATES, whether the text mentions AUTH_USER_MODEL, and the   *)
(* lines added at the end.  Entries are plain dotted names, which          *)
(* format_list and ast.literal_eval carry over unchanged.                  *)
(***************************************************************************)
SecurityMw == "django.middleware.security.SecurityMiddleware"
AllauthMw == "allauth.account.middleware.AccountMiddleware"
CorsMw == "corsheaders.middleware.CorsMiddleware"
AltCorsMw == "cors_alt.middleware.CorsMiddleware"
Trailer == "# Extra settings from packages"

\* line 173: "CorsMiddleware" in mw, over the entries in play
HasCorsMarker(mw) == mw \in {CorsMw, AltCorsMw}

\* DEFAULT_CONFIG["django_packages"]
PkgEnviron ==
  [name |-> "django-environ", apps |-> <<>>, middleware |-> <<>>, other_settings |-> ""]
PkgAllauth ==
  [name |-> "django-allauth",
   apps |-> <<"django.contrib.sites", "allauth", "allauth.account", "allauth.socialaccount">>,
   middleware |-> <<AllauthMw>>, other_settings |-> "SITE_ID = 1"]
PkgCors ==
  [name |-> "django-cors-headers", apps |-> <<"corsheaders">>,
   middleware |-> <<CorsMw>>, other_settings |-> "CORS_ALLOW_ALL_ORIGINS = True"]
\* a descriptor read from the user's config.json: load_config takes the saved
\* "django_packages" as they are
PkgAltCors ==
  [name |-> "cors-alt", apps |-> <<"corsheaders">>,
   middleware |-> <<AltCorsMw>>, other_settings |-> ""]
Descriptors == {PkgEnviron, PkgAllauth, PkgCors, PkgAltCors}

Contains(list, x) == \E i \in 1..Len(list) : list[i] = x

\* lines 165-168
RECURSIVE AddApps(_, _)
AddApps(list, apps_to_add) ==
  IF apps_to_add = <<>> THEN list
  ELSE LET app == Head(apps_to_add)
       IN AddApps(IF app # "" /\ ~Contains(list, app) THEN Append(list, app) ELSE list,
                  Tail(apps_to_add))

\* AddMiddleware appending every new entry, CORS marker or not
RECURSIVE AddMiddleware_AppendOnly(_, _)
AddMiddleware_AppendOnly(list, mw_to_add) ==
  IF mw_to_add = <<>> THEN list
  ELSE LET mw == Head(mw_to_add)
       IN AddMiddleware_AppendOnly(
            IF mw # "" /\ ~Contains(list, mw) THEN Append(list, mw) ELSE list,
            Tail(mw_to_add))

\* lines 169-174
RECURSIVE AddMiddleware(_, _)
AddMiddleware(list, mw_to_add) ==
  IF mw_to_add = <<>> THEN list
  ELSE LET mw == Head(mw_to_add)
       IN AddMiddleware(
            IF mw # "" /\ ~Contains(list, mw)
              THEN IF HasCorsMarker(mw) THEN <<mw>> \o list ELSE Append(list, mw)
              ELSE list,
            Tail(mw_to_add))

\* lines 163-175: the loop over the packages; d holds settings_dict and
\* other_settings_lines
RECURSIVE MergePackages(_, _)
MergePackages(d, django_packages) ==
  IF django_packages = <<>> THEN d
  ELSE LET pkg == Head(django_packages)
       IN MergePackages(
            [INSTALLED_APPS |-> AddApps(d.INSTALLED_APPS, pkg.apps),
             MIDDLEWARE |-> AddMiddleware(d.MIDDLEWARE, pkg.middleware),
             other_settings_lines |->
                IF pkg.other_settings # "" THEN Append(d.other_settings_lines, pkg.other_settings)
                ELSE d.other_settings_lines],
            Tail(django_packages))

\* lines 150-193: the new text of the settings file
patch_settings(txt, django_packages, custom_user_flag) ==
  LET d == MergePackages([INSTALLED_APPS |-> txt.apps, MIDDLEWARE |-> txt.mw,
                          other_settings_lines |-> <<>>], django_packages)
      apps1 == Append(d.INSTALLED_APPS, "core")
      apps2 == IF custom_user_flag THEN Append(apps1, "accounts") ELSE apps1
  IN [apps |-> IF apps2 # <<>> THEN apps2 ELSE txt.apps,
      mw |-> IF d.MIDDLEWARE # <<>> THEN d.MIDDLEWARE ELSE txt.mw,
      importOs |-> TRUE,
      dirs |-> IF txt.dirs = "empty" THEN "set" ELSE txt.dirs,
      authUser |-> txt.authUser \/ custom_user_flag,
      extras |-> IF d.other_settings_lines # <<>>
                   THEN txt.extras \o <<Trailer>> \o d.other_settings_lines
                   ELSE txt.extras]

\* one call of patch_settings on the file, with the selection and the flag of the request
PatchSettings ==
  /\ nPatched < MaxPatches
  /\ settings' = patch_settings(settings, pkgs, customFlag)
  /\ nPatched' = nPatched + 1
  /\ UNCHANGED <<pkgs, customFlag, appVars, injectVars, probeVars, listVars, readVars>>

(***************************************************************************)
(* inject_external_libraries (project_logic.py).  The content of base.html *)
(* is a sequence of tokens: a piece of other text, one of the two          *)
(* placeholder comments, an injected line, or the newline that "\n".join   *)
(* puts between two injected lines.  The URLs of the descriptors are URLs: *)
(* none of them holds the text of a placeholder.                           *)
(***************************************************************************)
Text(x) == <<"text", x>>
HeadMarker == <<"marker", "<!-- DJANGO_ASSISTANT_HEAD_LINKS -->">>
BodyMarker == <<"marker", "<!-- DJANGO_ASSISTANT_BODY_SCRIPTS -->">>
LinkLine(url) == <<"link", url>>
ScriptLine(url) == <<"script", url>>
Newline == <<"text", "\n">>
TemplateTokens == {Text("<html>"), Text("{% block content %}"), HeadMarker, BodyMarker}

\* DEFAULT_CONFIG["external_libraries"]
LibFontAwesome ==
  [name |-> "FontAwesome",
   head_links |-> <<"https://cdnjs.cloudflare.com/ajax/libs/font-awesome/6.5.1/css/all.min.css">>,
   body_scripts |-> <<>>]
LibHtmx ==
  [name |-> "HTMX", head_links |-> <<>>,
   body_scripts |-> <<"https://unpkg.com/htmx.org@1.9.10">>]
\* a descriptor read from the user's config.json, with assets of both kinds
LibCustom ==
  [name |-> "Custom", head_links |-> <<"https://example.org/a.css", "https://example.org/b.css">>,
   body_scripts |-> <<"https://example.org/a.js">>]
Libraries == {LibFontAwesome, LibHtmx, LibCustom}

\* line 270, for the head links of one library
RECURSIVE LinkLines(_)
LinkLines(urls) ==
  IF urls = <<>> THEN <<>> ELSE <<LinkLine(Head(urls))>> \o LinkLines(Tail(urls))

\* line 272, for the body scripts of one library
RECURSIVE ScriptLines(_)
ScriptLines(urls) ==
  IF urls = <<>> THEN <<>> ELSE <<ScriptLine(Head(urls))>> \o ScriptLines(Tail(urls))

\* lines 266-270: head_injection after the loop over the selected libraries
RECURSIVE HeadInjection(_)
HeadInjection(selected_libs) ==
  IF selected_libs = <<>> THEN <<>>
  ELSE LinkLines(Head(selected_libs).head_links) \o HeadInjection(Tail(selected_libs))

\* lines 266-272: body_injection after the loop
RECURSIVE BodyInjection(_)
BodyInjection(selected_libs) ==
  IF selected_libs = <<>> THEN <<>>
  ELSE ScriptLines(Head(selected_libs).body_scripts) \o BodyInjection(Tail(selected_libs))

\* JoinLines putting nothing between the lines
RECURSIVE JoinLines_NoSeparator(_)
JoinLines_NoSeparator(lines) ==
  IF lines = <<>> THEN <<>> ELSE <<Head(lines)>> \o JoinLines_NoSeparator(Tail(lines))

\* "\n".join(lines)
RECURSIVE JoinLines(_)
JoinLines(lines) ==
  IF lines = <<>> THEN <<>>
  ELSE IF Len(lines) = 1 THEN lines
  ELSE <<Head(lines), Newline>> \o JoinLines(Tail(lines))

\* content.replace(marker, by): every occurrence, left to right
RECURSIVE Replace(_, _, _)
Replace(content, marker, by) ==
  IF content = <<>> THEN <<>>
  ELSE (IF Head(content) = marker THEN by ELSE <<Head(content)>>)
         \o Replace(Tail(content), marker, by)

\* lines 274-275: the content written back
inject_external_libraries(content, selected_libs) ==
  Replace(Replace(content, HeadMarker, JoinLines(HeadInjection(selected_libs))),
          BodyMarker, JoinLines(BodyInjection(selected_libs)))

\* one call of inject_external_libraries; line 264 returns when there is no base.html
InjectLibraries ==
  /\ ~injected
  /\ injected' = TRUE
  /\ baseHtml' = IF baseExists THEN inject_external_libraries(baseHtml, libs) ELSE baseHtml
  /\ UNCHANGED <<baseExists, tpl0, libs, appVars, patchVars, probeVars, listVars, readVars>>

(***************************************************************************)
(* is_python_version_installed (project_logic.py).  A version string is    *)
(* held by its dot-separated numbers: "3.11.4" is <<3, 11, 4>>, "3" is     *)
(* <<3>>, the empty string is <<>>.  An interpreter on the machine is held *)
(* by the version it prints for --version; each one is reachable under its *)
(* versioned name (python3.11, or py -3.11 on Windows).                    *)
(***************************************************************************)
\* the minors in play are not digit prefixes of one another, so that the substring
\* test of the probes (key in output) is the equality of major.minor
Versions == {<<3, 11>>, <<3, 11, 4>>, <<3, 12>>, <<3, 12, 1>>, <<3>>, <<>>}
Interpreters == {<<3, 11, 4>>, <<3, 12, 1>>}

\* lines 74-76: re.match(r'^(\d+)\.(\d+)', ver) and the key built from its groups;
\* <<>> when there is no match
MajorMinor(ver) == IF Len(ver) >= 2 THEN <<ver[1], ver[2]>> ELSE <<>>

\* lines 79-99: the probes, each one a subprocess printing a version that is
\* searched for the key
ProbeFinds(key, path) == \E v \in path : MajorMinor(v) = key

Cached(cache, key) == \E e \in cache : e[1] = key
CachedValue(cache, key) == (CHOOSE e \in cache : e[1] = key)[2]

\* is_python_version_installed keeping only the positive answers
is_python_version_installed_PositiveOnly(ver, cache, path) ==
  LET key == MajorMinor(ver)
  IN IF key = <<>> THEN [result |-> FALSE, probed |-> FALSE, cache |-> cache]
     ELSE IF Cached(cache, key)
       THEN [result |-> CachedValue(cache, key), probed |-> FALSE, cache |-> cache]
     ELSE [result |-> ProbeFinds(key, path), probed |-> TRUE,
           cache |-> IF ProbeFinds(key, path) THEN cache \cup {<<key, TRUE>>} ELSE cache]

\* lines 69-101: the value returned, whether a probe subprocess was run, and
\* _installed_cache after the call
is_python_version_installed(ver, cache, path) ==
  LET key == MajorMinor(ver)
  IN IF key = <<>> THEN [result |-> FALSE, probed |-> FALSE, cache |-> cache]
     ELSE IF Cached(cache, key)
       THEN [result |-> CachedValue(cache, key), probed |-> FALSE, cache |-> cache]
     ELSE [result |-> ProbeFinds(key, path), probed |-> TRUE,
           cache |-> cache \cup {<<key, ProbeFinds(key, path)>>}]

\* one call, for any version string
CallIsInstalled ==
  /\ nCalls < MaxCalls
  /\ \E ver \in Versions :
       LET r == is_python_version_installed(ver, installedCache, onPath)
           key == MajorMinor(ver)
       IN /\ lastVer' = ver
          /\ lastResult' = r.result
          /\ lastProbed' = r.probed
          /\ installedCache' = r.cache
          /\ firstResult' = IF key = <<>> \/ (\E e \in firstResult : e[1] = key)
                              THEN firstResult
                              ELSE firstResult \cup {<<key, r.result, nCalls + 1>>}
  /\ nCalls' = nCalls + 1
  /\ UNCHANGED <<onPath, appVars, patchVars, injectVars, listVars, readVars>>

\* between two calls an interpreter is installed or removed (what happens after
\* the last call is of no matter)
ChangeInterpreters ==
  /\ nCalls < MaxCalls
  /\ \E v \in Interpreters :
       onPath' = IF v \in onPath THEN onPath \ {v} ELSE onPath \cup {v}
  /\ UNCHANGED <<installedCache, lastVer, lastResult, lastProbed, firstResult, nCalls,
                 appVars, patchVars, injectVars, listVars, readVars>>

(***************************************************************************)
(* get_python_versions_via_uv_blocking (project_logic.py).  A line of the  *)
(* output is a sequence of pieces: a run of white space, a maximal match   *)
(* of \d+\.\d+(?:\.\d+)?, or other text without such a match.              *)
(***************************************************************************)
Space == <<"space", " ">>
Version(v) == <<"version", v>>
Other(t) == <<"text", t>>
IsVersion(piece) == piece[1] = "version"

\* lines as "uv python list" prints them, and lines it could print
OutputLines ==
  { <<>>,
    <<Space>>,
    <<Other("cpython-"), Version("3.12.1"), Other("-linux-x86_64-gnu"), Space,
      Other("/usr/bin/python"), Version("3.12")>>,
    <<Space, Version("3.11.4"), Space>>,
    <<Version("3.12")>>,
    <<Other("cpython-"), Version("3.11.4"), Space, Other("<download available>")>>,
    <<Space, Other("pypy"), Space>>,
    <<Version("3.12.1")>> }

\* str.strip(): white space at both ends goes
RECURSIVE LStrip(_)
LStrip(line) ==
  IF line # <<>> /\ Head(line) = Space THEN LStrip(Tail(line)) ELSE line
RECURSIVE RStrip(_)
RStrip(line) ==
  IF line # <<>> /\ line[Len(line)] = Space THEN RStrip(SubSeq(line, 1, Len(line) - 1))
  ELSE line
Strip(line) == RStrip(LStrip(line))

\* lines 60-61: the first match of the pattern in the line, else the line itself
\* (a result is held as a sequence of pieces in both cases)
LineVersion(line) ==
  IF \E i \in 1..Len(line) : IsVersion(line[i])
    THEN <<line[CHOOSE i \in 1..Len(line) :
                   IsVersion(line[i]) /\ \A j \in 1..(i - 1) : ~IsVersion(line[j])]>>
    ELSE line

\* CollectVersions without the test on seen
RECURSIVE CollectVersions_NoSeen(_, _)
CollectVersions_NoSeen(lines, versions) ==
  IF lines = <<>> THEN versions
  ELSE LET line == Strip(Head(lines))
       IN IF line = <<>> THEN CollectVersions_NoSeen(Tail(lines), versions)
          ELSE CollectVersions_NoSeen(Tail(lines), Append(versions, LineVersion(line)))

\* lines 56-64: the loop over the lines; seen holds the elements of versions
RECURSIVE CollectVersions(_, _)
CollectVersions(lines, versions) ==
  IF lines = <<>> THEN versions
  ELSE LET line == Strip(Head(lines))
       IN IF line = <<>> THEN CollectVersions(Tail(lines), versions)
          ELSE LET ver == LineVersion(line)
               IN CollectVersions(Tail(lines),
                    IF \E i \in 1..Len(versions) : versions[i] = ver
                      THEN versions ELSE Append(versions, ver))

\* lines 53-65, uv having run: an output that is white space only gives []
get_python_versions_via_uv_blocking(out) ==
  IF \A i \in 1..Len(out) : Strip(out[i]) = <<>> THEN <<>>
  ELSE CollectVersions(out, <<>>)

\* one call; without uv on PATH subprocess.run raises FileNotFoundError (lines 49-52)
ListVersions ==
  /\ listOutcome = "none"
  /\ IF uvAvailable
       THEN /\ listOutcome' = "returned"
            /\ listResult' = get_python_versions_via_uv_blocking(uvOutput)
       ELSE /\ listOutcome' = "not_found"
            /\ listResult' = listResult
  /\ UNCHANGED <<uvOutput, appVars, patchVars, injectVars, probeVars, readVars>>

(***************************************************************************)
(* The application.                                                        *)
(***************************************************************************)
PatchIdle ==
  /\ settings = [apps |-> <<>>, mw |-> <<>>, importOs |-> FALSE, dirs |-> "empty",
                 authUser |-> FALSE, extras |-> <<>>]
  /\ pkgs = <<>> /\ customFlag = FALSE /\ nPatched = 0
InjectIdle ==
  /\ baseHtml = <<>> /\ baseExists = FALSE /\ tpl0 = <<>> /\ libs = <<>> /\ injected = FALSE
ProbeIdle ==
  /\ installedCache = {} /\ onPath = {} /\ lastVer = <<>> /\ lastResult = FALSE
  /\ lastProbed = FALSE /\ firstResult = {} /\ nCalls = 0
ListIdle ==
  /\ uvOutput = <<>> /\ listResult = <<>> /\ listOutcome = "none"
ReadIdle ==
  /\ srvLines = <<>> /\ nRead = 0 /\ rdPc = "off" /\ rdQ = <<>> /\ heard = <<>>
  /\ rdHandle = "none"

\* __init__: the configuration is loaded, the variables take the remembered
\* choices, _toggle_superuser_option runs once, the version list is filled.
AppInit ==
  /\ uvAvailable \in BOOLEAN
  /\ projDir = "absent" /\ venvDir = "absent" /\ tmplExists = TRUE /\ coreDir = FALSE
  /\ formState = "normal" /\ btnText = "Create Project" /\ btnState = "normal"
  /\ customUserVar \in BOOLEAN
  /\ superuserVar \in BOOLEAN
  /\ ~customUserVar => ~superuserVar
  /\ chkSuperState = IF customUserVar THEN "normal" ELSE "disabled"
  /\ cfg \in [versions : {"none", "some"}]
  /\ pyVersionVar = (cfg.versions = "some")
  /\ console = {IF cfg.versions = "some"
                  THEN Status("Using cached Python versions. Press 'Refresh versions' to fetch new ones.")
                  ELSE Status("No cached Python versions. Press 'Refresh versions' to fetch from 'uv'.")}
  /\ afterQ = <<>> /\ delayedInfo = FALSE /\ dialogs = {} /\ closed = FALSE
  /\ pc = "idle" /\ data = NoData /\ err = "" /\ trace = <<>>
  /\ handleProc = "none" /\ orphans = 0 /\ reader = "none" /\ termSent = FALSE
  /\ rpc = "idle"

Init == AppInit /\ PatchIdle /\ InjectIdle /\ ProbeIdle /\ ListIdle /\ ReadIdle

Next ==
  \/ OnStartRejected \/ OnStart \/ ToggleCustomUser \/ ToggleSuperuser
  \/ OnStopServer \/ OnClose \/ OnExit \/ StartRefresh
  \/ WorkerStep
  \/ UIStep
  \/ ServerExit \/ ReaderLine \/ ReaderEOF
  \/ R_Listed \/ R_Saved \/ R_NotFound \/ R_Crashed

Spec == Init /\ [][Next]_vars

\* The scheduling: the Tk main loop runs every registered callback in the end, and
\* the worker thread is scheduled as long as it can take a step.
FairSpec == Spec /\ WF_vars(UIStep) /\ WF_vars(WorkerStep)

(***************************************************************************)
(* Properties of the pipeline.                                             *)
(***************************************************************************)
ExceptPcs == {"except1", "except2", "except3"}
AbortedPcs == ExceptPcs \cup {"idle"}
\* the run is over and the main loop has run everything it registered
Settled == ~closed /\ pc = "idle" /\ afterQ = <<>>
NoCommandRun == \A i \in 1..Len(trace) : trace[i].op \notin Commands
FormEnabled == formState = "normal" /\ btnState = "normal"

\* C1: a request whose project directory or environment directory exists and is
\* not empty fails at the validation of the paths: the worker goes from the
\* validation to the except clause with the matching message, and the run has no
\* effect at all, so no external command is invoked.
C1_NonEmptyTargetFailsAtValidation ==
  (data.run /\ (data.projFull \/ data.venvFull)) =>
     /\ trace = <<>>
     /\ NoCommandRun
     /\ pc \in {"validate"} \cup AbortedPcs
     /\ pc # "validate" =>
          err = IF data.projFull THEN MsgProjectNotEmpty ELSE MsgVenvNotEmpty

C1_Witness ==
  /\ data.run /\ data.venvFull /\ ~data.projFull
  /\ Settled /\ err = MsgVenvNotEmpty /\ trace = <<>>
  /\ Aborted(MsgVenvNotEmpty) \in console

\* C2: when uv is absent, a run that passed the validation stops at the toolchain
\* check with the uv-not-found message; no directory was created, no command was
\* invoked (the run has no effect), and the message reaches the console.
C2_MissingToolchainAbortsWithoutEffect ==
  (data.run /\ ~data.projFull /\ ~data.venvFull /\ ~uvAvailable
     /\ pc \notin {"validate", "check_uv"}) =>
     /\ pc \in AbortedPcs
     /\ err = MsgUvNotFound
     /\ trace = <<>>
     /\ projDir # "nonempty" /\ venvDir # "nonempty"
     /\ Settled => Aborted(MsgUvNotFound) \in console

C2_Witness ==
  /\ data.run /\ ~uvAvailable /\ projDir = "absent" /\ venvDir = "absent"
  /\ Settled /\ err = MsgUvNotFound /\ trace = <<>>
  /\ Aborted(MsgUvNotFound) \in console

\* the message raised after a nonzero exit of one of the three checked commands
FailureMsg(op) ==
  CASE op = "uv venv" -> MsgVenvFailed
    [] op = "uv pip install" -> MsgPipFailed
    [] op = "startproject" -> MsgStartprojectFailed
CheckedCommands == {"uv venv", "uv pip install", "startproject"}

\* C3: a nonzero exit of the environment creation, the dependency install or the
\* project scaffold ends the run: the failed command is the last effect of the
\* run, the worker is in the except clause or done, and once the main loop has
\* run the registered callbacks the console holds the captured output of the
\* command and the synthesized "Process aborted" message.
C3_CheckedCommandFailureAborts ==
  \A i \in 1..Len(trace) :
     (trace[i].op \in CheckedCommands /\ trace[i].rc # 0) =>
        /\ i = Len(trace)
        /\ pc \in AbortedPcs
        /\ err = FailureMsg(trace[i].op)
        /\ Settled => /\ Log(trace[i].op) \in console
                      /\ Aborted(FailureMsg(trace[i].op)) \in console

C3_Witness ==
  /\ Settled /\ Len(trace) = 4
  /\ trace[4] = Cmd("uv pip install", 1)
  /\ Log("uv pip install") \in console /\ Aborted(MsgPipFailed) \in console

LaterThanTemplates == {"copy templates", "inject libraries", "makemigrations", "migrate",
                       "createsuperuser", "runserver"}

\* C5: when the collection directory is missing, a run that reaches the template
\* step stops there with the collection-not-found error: nothing is copied, and
\* neither the injection, the migrations, the admin creation nor the server start
\* is carried out.
C5_MissingCollectionAborts ==
  (data.run /\ ~tmplExists /\ "patch settings" \in Ops(trace) /\ pc # "templates") =>
     /\ pc \in AbortedPcs
     /\ err = MsgCollectionNotFound
     /\ Ops(trace) \cap LaterThanTemplates = {}
     /\ handleProc = "none"
     /\ Settled => Aborted(MsgCollectionNotFound) \in console

C5_Witness ==
  /\ data.run /\ ~tmplExists /\ Settled
  /\ err = MsgCollectionNotFound
  /\ "patch settings" \in Ops(trace)
  /\ Aborted(MsgCollectionNotFound) \in console

\* C4: whatever step raises, no later step is carried out (the effects of the run
\* do not grow once an exception is caught), the message reaches the console, and
\* the form is enabled again in the end, unless the window is closed first.
C4_AbortStopsAndReenables ==
  /\ [][(err # "" /\ err' = err) => trace' = trace]_vars
  /\ []((Settled /\ err # "") => Aborted(err) \in console)
  /\ (pc = "except1") ~> (closed \/ FormEnabled)

C4_Witness ==
  /\ Settled /\ err = MsgPermission /\ FormEnabled
  /\ Aborted(MsgPermission) \in console

(***************************************************************************)
(* Properties of the server process.                                       *)
(***************************************************************************)
LiveServers == orphans + (IF handleProc = "live" THEN 1 ELSE 0)
StoppedPending ==
  \/ reader = "reading"
  \/ \E i \in 1..Len(afterQ) : afterQ[i].cb = "server_stopped"
StartPending == \E i \in 1..Len(afterQ) : afterQ[i].cb = "start_dev_server"

\* C9 as stated: at most one server is live and the handle is set exactly while
\* its process is live.
C9_HandleSetExactlyWhileLive ==
  /\ LiveServers <= 1
  /\ handleProc # "none" <=> handleProc = "live"

\* C9 as amended: at most one server is live and the handle names it; the handle
\* is set at the launch and cleared by the "stopped" update, which is still to
\* come while the handle names a process that has ended; no server is launched
\* (no pipeline runs, no launch is registered) while the handle is set.
C9_OneServerHandleClearedByStoppedUpdate ==
  /\ LiveServers <= 1
  /\ orphans = 0
  /\ (~closed /\ handleProc = "exited") => StoppedPending
  /\ (handleProc # "none") => (pc \in {"idle", "finish2"} /\ ~StartPending)
  /\ (handleProc = "none") => (reader = "none")

C9_Witness ==
  /\ ~closed /\ handleProc = "none" /\ "runserver" \in Ops(trace)
  /\ Status("Server stopped.") \in console
  /\ btnText = "Create Project" /\ FormEnabled

(***************************************************************************)
(* patch_settings applied to a settings file, once and again.              *)
(***************************************************************************)
\* the application at rest, while a function is looked at on its own
AppIdle ==
  /\ AppInit
  /\ uvAvailable /\ ~customUserVar /\ ~superuserVar /\ cfg.versions = "none"

InjectiveSeqs(S, n) ==
  UNION {{q \in [1..k -> S] : \A i, j \in 1..k : i # j => q[i] # q[j]} : k \in 0..n}

\* the file before the first call: duplicate-free lists, as startproject writes
\* them or as an earlier hand edit left them
PatchInit ==
  /\ settings \in [apps : {<<"django.contrib.admin">>, <<"django.contrib.admin", "corsheaders">>},
                   mw : InjectiveSeqs({SecurityMw, AllauthMw, CorsMw}, MaxPreMw),
                   importOs : BOOLEAN, dirs : {"empty", "other"},
                   authUser : BOOLEAN, extras : {<<>>}]
  /\ pkgs \in InjectiveSeqs(Descriptors, Cardinality(Descriptors))
  /\ customFlag \in BOOLEAN
  /\ nPatched = 0

InitPatch == AppIdle /\ PatchInit /\ InjectIdle /\ ProbeIdle /\ ListIdle /\ ReadIdle
NextPatch == PatchSettings
SpecPatch == InitPatch /\ [][NextPatch]_vars

NoDuplicates(list) == \A i, j \in 1..Len(list) : list[i] = list[j] => i = j

\* C6: after patch_settings was applied a second time to its own output with the
\* same package descriptors, no entry occurs twice in the applications list or in
\* the middleware list.
C6_SecondApplicationDuplicateFree ==
  nPatched >= 2 => NoDuplicates(settings.apps) /\ NoDuplicates(settings.mw)

\* the middleware entries of the selected packages, in the order of the loop
RECURSIVE SelectedMw(_)
SelectedMw(ps) == IF ps = <<>> THEN <<>> ELSE Head(ps).middleware \o SelectedMw(Tail(ps))
FirstIndex(list, x) == CHOOSE i \in 1..Len(list) : list[i] = x /\ \A j \in 1..(i-1) : list[j] # x
\* the CORS-marker entries of the selection that the list does not hold yet
NewCors(old, ps) ==
  {e \in {SelectedMw(ps)[i] : i \in 1..Len(SelectedMw(ps))} :
      e # "" /\ HasCorsMarker(e) /\ ~Contains(old, e)}

BoundedSeqs(S, n) == UNION {[1..k -> S] : k \in 0..n}

\* base.html as create_templates copied it from the collection, if it did
InjectInit ==
  /\ baseExists \in BOOLEAN
  /\ tpl0 \in IF baseExists THEN BoundedSeqs(TemplateTokens, MaxTplLen) ELSE {<<>>}
  /\ baseHtml = tpl0
  /\ libs \in InjectiveSeqs(Libraries, Cardinality(Libraries))
  /\ injected = FALSE

InitInject == AppIdle /\ PatchIdle /\ InjectInit /\ ProbeIdle /\ ListIdle /\ ReadIdle
NextInject == InjectLibraries
SpecInject == InitInject /\ [][NextInject]_vars

Occurrences(list, x) == Cardinality({i \in 1..Len(list) : list[i] = x})
\* the head links and the body scripts of the selection, in descriptor order
RECURSIVE AllUrls(_, _)
AllUrls(ls, field) ==
  IF ls = <<>> THEN <<>> ELSE Head(ls)[field] \o AllUrls(Tail(ls), field)
\* what stands for a piece of the template after the injection
Substituted(tok) ==
  LET hl == AllUrls(libs, "head_links")
      bs == AllUrls(libs, "body_scripts")
  IN IF tok = HeadMarker
       THEN [i \in 1..(IF hl = <<>> THEN 0 ELSE 2 * Len(hl) - 1) |->
               IF i % 2 = 1 THEN LinkLine(hl[(i + 1) \div 2]) ELSE Newline]
     ELSE IF tok = BodyMarker
       THEN [i \in 1..(IF bs = <<>> THEN 0 ELSE 2 * Len(bs) - 1) |->
               IF i % 2 = 1 THEN ScriptLine(bs[(i + 1) \div 2]) ELSE Newline]
     ELSE <<tok>>
RECURSIVE Flatten(_)
Flatten(parts) == IF parts = <<>> THEN <<>> ELSE Head(parts) \o Flatten(Tail(parts))

\* C8: the injection is a placeholder substitution.  The written content is the
\* template with each head placeholder replaced, once, by the head links of the
\* selected libraries, one per line in descriptor order, each body placeholder
\* replaced, once, by their body scripts, and every other piece left as it was
\* and where it was; no placeholder is left.  Without a base.html nothing is written.
C8_InjectionIsPlaceholderSubstitution ==
  injected =>
     /\ baseHtml = Flatten([i \in 1..Len(tpl0) |-> Substituted(tpl0[i])])
     /\ Occurrences(baseHtml, HeadMarker) = 0 /\ Occurrences(baseHtml, BodyMarker) = 0
     /\ \A t \in TemplateTokens \ {HeadMarker, BodyMarker} :
           Occurrences(baseHtml, t) = Occurrences(tpl0, t)
     /\ \A i \in 1..Len(libs) : \A j \in 1..Len(libs[i].head_links) :
           Occurrences(baseHtml, LinkLine(libs[i].head_links[j])) = Occurrences(tpl0, HeadMarker)
     /\ \A i \in 1..Len(libs) : \A j \in 1..Len(libs[i].body_scripts) :
           Occurrences(baseHtml, ScriptLine(libs[i].body_scripts[j])) = Occurrences(tpl0, BodyMarker)
     /\ ~baseExists => baseHtml = <<>>

C8_Witness ==
  /\ injected /\ baseExists
  /\ tpl0 = <<Text("<html>"), HeadMarker, Text("{% block content %}"), BodyMarker>>
  /\ libs = <<LibCustom, LibFontAwesome, LibHtmx>>
  /\ baseHtml = <<Text("<html>"),
                  LinkLine("https://example.org/a.css"), Newline,
                  LinkLine("https://example.org/b.css"), Newline,
                  LinkLine("https://cdnjs.cloudflare.com/ajax/libs/font-awesome/6.5.1/css/all.min.css"),
                  Text("{% block content %}"),
                  ScriptLine("https://example.org/a.js"), Newline,
                  ScriptLine("https://unpkg.com/htmx.org@1.9.10")>>

(***************************************************************************)
(* is_python_version_installed called again and again in one process.      *)
(***************************************************************************)
ProbeInit ==
  /\ installedCache = {} /\ onPath \in SUBSET Interpreters
  /\ lastVer = <<>> /\ lastResult = FALSE /\ lastProbed = FALSE
  /\ firstResult = {} /\ nCalls = 0

InitProbe == AppIdle /\ PatchIdle /\ InjectIdle /\ ProbeInit /\ ListIdle /\ ReadIdle
NextProbe == CallIsInstalled \/ ChangeInterpreters
SpecProbe == InitProbe /\ [][NextProbe]_vars

\* C10: a call for a version whose major.minor was asked for by an earlier call
\* returns what that first call returned and runs no probe, whatever happened to
\* the installed interpreters in between; the first call for a major.minor is the
\* one that probes.
C10_MemoizedPerMajorMinor ==
  \A e \in firstResult :
     (nCalls >= 1 /\ MajorMinor(lastVer) = e[1]) =>
        /\ e[3] < nCalls => (lastResult = e[2] /\ ~lastProbed)
        /\ e[3] = nCalls => (lastResult = e[2] /\ lastProbed)

C10_Witness ==
  /\ nCalls = 2 /\ lastVer = <<3, 11, 4>>
  /\ <<<<3, 11>>, FALSE, 1>> \in firstResult
  /\ <<3, 11, 4>> \in onPath
  /\ lastResult = FALSE /\ ~lastProbed

(***************************************************************************)
(* get_python_versions_via_uv_blocking called on an output of uv.          *)
(***************************************************************************)
ListInit ==
  /\ uvOutput \in BoundedSeqs(OutputLines, MaxLines)
  /\ listResult = <<>> /\ listOutcome = "none"

InitList ==
  /\ AppInit /\ ~customUserVar /\ ~superuserVar /\ cfg.versions = "none"
  /\ PatchIdle /\ InjectIdle /\ ProbeIdle /\ ListInit /\ ReadIdle
NextList == ListVersions
SpecList == InitList /\ [][NextList]_vars

\* the non-blank lines of the output, stripped, in order
NonBlank(out) == SelectSeq([i \in 1..Len(out) |-> Strip(out[i])], LAMBDA l : l # <<>>)
FirstAt(list, x) == CHOOSE i \in 1..Len(list) : list[i] = x /\ \A j \in 1..(i - 1) : list[j] # x

\* C11: the list returned holds the version token of every non-blank line of the
\* output (the first match in the line, or the line when it has no match), each
\* one once, in the order in which they first occur in the output.
C11_EachVersionOnceInFirstSeenOrder ==
  listOutcome = "returned" =>
     LET toks == [i \in 1..Len(NonBlank(uvOutput)) |-> LineVersion(NonBlank(uvOutput)[i])]
     IN /\ {listResult[i] : i \in 1..Len(listResult)} = {toks[i] : i \in 1..Len(toks)}
        /\ \A i, j \in 1..Len(listResult) : listResult[i] = listResult[j] => i = j
        /\ \A i, j \in 1..Len(listResult) :
              i < j => FirstAt(toks, listResult[i]) < FirstAt(toks, listResult[j])

C11_Witness ==
  /\ listOutcome = "returned"
  /\ uvOutput = << <<Space, Version("3.11.4"), Space>>,
                   <<Version("3.12.1")>>,
                   <<Other("cpython-"), Version("3.11.4"), Space, Other("<download available>")>> >>
  /\ listResult = << <<Version("3.11.4")>>, <<Version("3.12.1")>> >>

(***************************************************************************)
(* Properties of the version refresh.                                      *)
(***************************************************************************)
Pending(name) == \E i \in 1..Len(afterQ) : afterQ[i].cb = name
UvNotFoundDialog == <<"uv not found", "'uv' not found in PATH.">>
RowRefreshFailed == Status("Refresh failed. 'uv' command might not be available.")
RowRefreshed == Status("Python versions refreshed and cached.")

\* C12: the two outcomes of listing the versions are kept apart.  Without uv the
\* listing raises the tool-not-found condition: the refresh shows the "uv not
\* found" dialog and the failure row, and no step of it changes the cached
\* versions.  With uv, an output without versions is an empty list and no error:
\* it is cached and saved, and the refresh ends with the success row and no dialog.
C12_NotFoundIsNotAnEmptyList ==
  /\ []((Pending("showerror_uv") \/ Pending("finish_refresh_failed")
           \/ RowRefreshFailed \in console) => ~uvAvailable)
  /\ [](RowRefreshFailed \in console => UvNotFoundDialog \in dialogs)
  /\ []((rpc = "save" \/ Pending("finish_refresh_ok") \/ RowRefreshed \in console) =>
           /\ uvAvailable
           /\ UvNotFoundDialog \notin dialogs
           /\ ~Pending("showerror_uv") /\ ~Pending("finish_refresh_failed")
           /\ RowRefreshFailed \notin console)
  /\ []((RowRefreshed \in console /\ cfg.versions = "none") => ~pyVersionVar)
  /\ [][(rpc = "run" /\ ~uvAvailable) => cfg' = cfg]_vars

C12_Witness ==
  /\ ~closed /\ ~uvAvailable /\ rpc = "idle"
  /\ RowRefreshFailed \in console /\ UvNotFoundDialog \in dialogs
  /\ cfg.versions = "some"

(***************************************************************************)
(* Properties of the start of a run.                                       *)
(***************************************************************************)
\* C13: a request with a pre-flight validation error (here: a target directory
\* that is not empty, a template collection that is missing) starts no worker and
\* never has the form disabled.
C13_ValidationErrorStartsNoWorker ==
  (data.run /\ (data.projFull \/ data.venvFull \/ ~tmplExists)) =>
     (pc = "idle" /\ formState = "normal" /\ trace = <<>>)

(***************************************************************************)
(* Properties of the threads.                                              *)
(***************************************************************************)
\* C14: every blocking operation (a process launched or waited for, a sleep) is
\* carried out by a background worker thread, none by a handler of the UI thread.
C14_BlockingOperationsOnWorkerOnly ==
  \A i \in 1..Len(trace) : trace[i].by = "worker"

\* the steps of the UI thread: the handlers of the user's actions and the callbacks
UiThreadStep ==
  \/ OnStartRejected \/ OnStart \/ ToggleCustomUser \/ ToggleSuperuser
  \/ OnStopServer \/ OnClose \/ OnExit \/ StartRefresh \/ UIStep

\* C15: the configuration is changed by steps of the UI thread only, and the UI
\* thread's save at window close never falls between a worker's write of the
\* configuration and the end of that worker's save.
C15_ConfigWrittenOnUiThreadOnly ==
  /\ [][cfg' # cfg => UiThreadStep]_vars
  /\ [][OnClose => rpc # "save"]_vars

\* ---------------------------------------------------------------------------
\* C16: at any time at most one background thread is alive: the pipeline
\* worker (_project_worker_thread), the refresh worker (_refresh_worker) and the
\* reader of the server's output (_stream_server_output) never overlap.
Alive(b) == IF b THEN 1 ELSE 0

BackgroundThreads == Alive(pc # "idle") + Alive(rpc # "idle") + Alive(reader = "reading")

C16_AtMostOneBackgroundThread == BackgroundThreads <= 1

\* ---------------------------------------------------------------------------
\* The external commands of the pipeline, in the order of lines 331-361.
CommandOrder ==
  <<"uv venv", "uv pip install", "startproject", "startapp core", "startapp accounts",
    "makemigrations", "migrate", "createsuperuser">>

OptionalCommands == {"startapp accounts", "createsuperuser"}

IsCommand(e) == e.by = "worker" /\ \E k \in 1..Len(CommandOrder) : CommandOrder[k] = e.op

Rank(op) == CHOOSE k \in 1..Len(CommandOrder) : CommandOrder[k] = op

Ran(op) == \E i \in 1..Len(trace) : trace[i].by = "worker" /\ trace[i].op = op

\* C17: within one run every external command of the pipeline is executed at
\* most once and in the fixed order environment creation, dependency install,
\* scaffold, core app, (accounts app), schema generation, schema application,
\* (admin creation): the commands of the run's effects appear in strictly
\* increasing rank, a command is preceded by every mandatory command of lower
\* rank, and the two optional ones are run for a request that asks for them.
C17_CommandsOnceInFixedOrder ==
  /\ \A i, j \in 1..Len(trace) :
        (i < j /\ IsCommand(trace[i]) /\ IsCommand(trace[j]))
          => Rank(trace[i].op) < Rank(trace[j].op)
  /\ \A k \in 1..Len(CommandOrder) :
        Ran(CommandOrder[k]) =>
          \A l \in 1..(k - 1) : CommandOrder[l] \notin OptionalCommands => Ran(CommandOrder[l])
  /\ Ran("startapp accounts") => data.custom
  /\ (Ran("migrate") /\ data.custom) => Ran("startapp accounts")

C17_Witness ==
  /\ pc = "finish"
  /\ \A k \in 1..Len(CommandOrder) : Ran(CommandOrder[k])

\* ---------------------------------------------------------------------------
\* C18: the creation of the core application is best-effort: when its command
\* exits nonzero the run is not ended by it, and the step after it, the writing
\* of the core files, is carried out.
C18_CoreAppFailureIsNotFatal ==
  \A i \in 1..Len(trace) :
    (trace[i] = Cmd("startapp core", 1) /\ pc # "core_files")
      => \E j \in (i + 1)..Len(trace) : trace[j] = Eff("write core files")

\* ---------------------------------------------------------------------------
\* C19: the schema generation and the schema application are both run whatever
\* their exit codes, and a nonzero exit of either does not keep the run from its
\* success ending: once the generation has run the application runs next, after
\* the application the worker is never in the except clause and no error is
\* bound, and when the worker has returned and the main loop has run the
\* registered callbacks the console holds "Done!" and no "Process aborted" row.
AfterMigrate == {"superuser", "finish", "finish2", "idle"}

C19_MigrationsRunWhateverTheirExit ==
  /\ (Ran("makemigrations") /\ pc # "migrate") => Ran("migrate")
  /\ Ran("migrate") =>
        /\ Ran("makemigrations")
        /\ pc \in AfterMigrate /\ err = ""
        /\ Settled => (Status("Done!") \in console /\ \A row \in console : row[2] # "Process aborted: ")

C19_Witness ==
  /\ Settled
  /\ \E i, j \in 1..Len(trace) :
        trace[i] = Cmd("makemigrations", 1) /\ trace[j] = Cmd("migrate", 1)
  /\ Status("Done!") \in console

\* ---------------------------------------------------------------------------
\* C20: the admin creation is run exactly for a request that supplies
\* credentials; its success is decided by the success phrase in its output and
\* not by its exit code; a negative result is reported and never ends the run
\* in the except clause.  When the worker has returned and the main loop has
\* run the registered callbacks, the console holds the success row exactly if
\* the output holds the phrase, the warning row otherwise, and "Done!" in
\* either case.
RowSuperuserOk == Status("Superuser created successfully.")

RowSuperuserWarning ==
  Status("Warning: Superuser creation may have failed. Check console log.")

C20_AdminCreationByOutputNeverFatal ==
  /\ Ran("createsuperuser") => data.creds
  /\ (Ran("migrate") /\ data.creds /\ pc # "superuser") => Ran("createsuperuser")
  /\ \A i \in 1..Len(trace) :
        (trace[i].op = "createsuperuser" /\ trace[i].by = "worker") =>
          /\ pc \in {"finish", "finish2", "idle"} /\ err = ""
          /\ Settled =>
                /\ Status("Done!") \in console
                /\ (RowSuperuserOk \in console)
                      <=> (\E k \in 1..Len(trace[i].out) : trace[i].out[k] = SuccessPhrase)
                /\ (RowSuperuserWarning \in console) <=> (RowSuperuserOk \notin console)

C20_Witness ==
  /\ Settled
  /\ \E i \in 1..Len(trace) :
        /\ trace[i].op = "createsuperuser" /\ trace[i].rc = 1
        /\ trace[i].out = <<"Warning", SuccessPhrase>>
  /\ RowSuperuserOk \in console

\* ---------------------------------------------------------------------------
\* The end of a successful run: the worker has passed line 365.
Succeeded == data.run /\ Ran("migrate") /\ pc \in {"finish2", "idle"}

ServerStarted == \E i \in 1..Len(trace) : trace[i] = UiCmd("runserver")

StopControlOnly ==
  formState = "disabled" /\ btnText = "Stop Server" /\ btnState = "normal"

CreateControl == FormEnabled /\ btnText = "Create Project"

\* C21 as stated: after a successful run with the open-browser flag the server
\* is started and the form stays disabled but for the stop control; without the
\* flag no server is started and the form is enabled again.
C21_BrowserFlagStartsServer ==
  (Succeeded /\ Settled) =>
    IF data.browser
      THEN ServerStarted /\ (handleProc # "none" => StopControlOnly)
      ELSE ~ServerStarted /\ handleProc = "none" /\ CreateControl

\* C21: after a successful run without the open-browser flag no server is
\* started, and once the registered callbacks have run the success dialog has
\* been shown and the form is enabled.  With the flag the start of the server is
\* attempted: when the process is started, the form is disabled and the action
\* button is the enabled stop control for as long as the handle is set, and
\* the form is enabled again by the "stopped" update; when the process cannot
\* be started, an error dialog is shown, no server runs and the form is enabled.
C21_BrowserFlagAttemptsServerStart ==
  (Succeeded /\ Settled) =>
    IF data.browser
      THEN IF ServerStarted
             THEN /\ handleProc # "none" => StopControlOnly
                  /\ handleProc = "none" =>
                        (CreateControl /\ Status("Server stopped.") \in console)
             ELSE /\ handleProc = "none" /\ CreateControl
                  /\ <<"Server Error", "Failed to start dev server">> \in dialogs
      ELSE /\ ~ServerStarted /\ handleProc = "none" /\ CreateControl
           /\ <<"Success", "Project created">> \in dialogs

C21_Witness ==
  /\ Succeeded /\ Settled /\ data.browser
  /\ ~ServerStarted /\ CreateControl
  /\ <<"Server Error", "Failed to start dev server">> \in dialogs

(***************************************************************************)
(* _stream_server_output for one server: the reader thread reads the       *)
(* combined output line by line and registers a callback for each line     *)
(* and one for the end of the stream; the main loop runs the callbacks,    *)
(* oldest first.                                                           *)
(***************************************************************************)
\* lines as readline returns them, the line of a blank line included
ServerLines == {"Watching for file changes with StatReloader\n",
                "Starting development server at http://127.0.0.1:8000/\n", "\n"}

\* RD_Line passing over the lines that hold white space only
RD_Line_SkipsBlank ==
  /\ rdPc = "loop" /\ nRead < Len(srvLines)
  /\ rdQ' = IF srvLines[nRead + 1] = "\n" THEN rdQ
            ELSE Append(rdQ, Cb("append", srvLines[nRead + 1]))
  /\ nRead' = nRead + 1
  /\ UNCHANGED <<srvLines, rdPc, heard, rdHandle, appVars, patchVars, injectVars,
                 probeVars, listVars>>

\* line 401: readline returned a line, which is registered for _append_to_console
RD_Line ==
  /\ rdPc = "loop" /\ nRead < Len(srvLines)
  /\ rdQ' = Append(rdQ, Cb("append", srvLines[nRead + 1]))
  /\ nRead' = nRead + 1
  /\ UNCHANGED <<srvLines, rdPc, heard, rdHandle, appVars, patchVars, injectVars,
                 probeVars, listVars>>

\* line 402: readline returned '', the stream is closed; the thread ends
RD_Stopped ==
  /\ rdPc = "loop" /\ nRead = Len(srvLines)
  /\ rdQ' = Append(rdQ, Cb("server_stopped", <<>>))
  /\ rdPc' = "done"
  /\ UNCHANGED <<srvLines, nRead, heard, rdHandle, appVars, patchVars, injectVars,
                 probeVars, listVars>>

\* the main loop runs the oldest callback: _append_to_console with the line, or
\* _update_ui_for_server_stopped, whose line 423 clears the handle
RD_Deliver ==
  /\ rdQ # <<>>
  /\ heard' = Append(heard, Head(rdQ))
  /\ rdQ' = Tail(rdQ)
  /\ rdHandle' = IF Head(rdQ).cb = "server_stopped" THEN "none" ELSE rdHandle
  /\ UNCHANGED <<srvLines, nRead, rdPc, appVars, patchVars, injectVars, probeVars,
                 listVars>>

\* _start_dev_server has set the handle (line 390) and started the thread (line 391)
ReadInit ==
  /\ srvLines \in BoundedSeqs(ServerLines, MaxServerLines)
  /\ nRead = 0 /\ rdPc = "loop" /\ rdQ = <<>> /\ heard = <<>> /\ rdHandle = "proc"

InitRead == AppIdle /\ PatchIdle /\ InjectIdle /\ ProbeIdle /\ ListIdle /\ ReadInit
NextRead == RD_Line \/ RD_Stopped \/ RD_Deliver
SpecRead == InitRead /\ [][NextRead]_vars

\* every callback the reader has registered, oldest first
ReaderCalls == heard \o rdQ

\* C22: the reader registers one listener call for every line it reads, in the
\* order read and with the line as read; when the stream has closed it
\* registers the "stopped" report once, behind every line; the handle is
\* cleared exactly when the "stopped" report has been run.
C22_ReaderForwardsLinesThenStopped ==
  /\ Len(ReaderCalls) = nRead + (IF rdPc = "done" THEN 1 ELSE 0)
  /\ \A i \in 1..nRead : ReaderCalls[i] = Cb("append", srvLines[i])
  /\ rdPc = "done" =>
        /\ nRead = Len(srvLines)
        /\ ReaderCalls[nRead + 1] = Cb("server_stopped", <<>>)
  /\ (rdHandle = "none") <=> (\E i \in 1..Len(heard) : heard[i].cb = "server_stopped")

C22_Witness ==
  /\ rdPc = "done" /\ rdQ = <<>> /\ rdHandle = "none"
  /\ Len(srvLines) = MaxServerLines /\ srvLines[1] # srvLines[2] /\ srvLines[2] = "\n"
  /\ Len(heard) = MaxServerLines + 1

\* ---------------------------------------------------------------------------
\* the "running" update of a server is registered behind its "stopped" update
RunningBehindStopped ==
  \E i, j \in 1..Len(afterQ) :
    i < j /\ afterQ[i].cb = "server_stopped" /\ afterQ[j].cb = "server_running"

StoppedState == handleProc = "none" /\ CreateControl

\* C23: however the reader thread and the UI thread interleave, the "running"
\* update of a server is never run after its "stopped" update: it is never
\* registered behind it, and it is run only while the handle is set.  Once the
\* reader has seen the end of the stream and registered the "stopped" update,
\* the UI gets to the stopped state (handle cleared, action button "Create
\* Project", form enabled) unless the window is closed first.
C23_StoppedUpdateIsLast ==
  /\ [](~RunningBehindStopped)
  /\ [][UI_ServerRunning => (handleProc # "none" /\ ~StoppedState')]_vars
  /\ [][UI_ServerStopped => StoppedState']_vars
  /\ Pending("server_stopped") ~> (closed \/ StoppedState)

C23_Witness ==
  \E i, j \in 1..Len(afterQ) :
    i < j /\ afterQ[i].cb = "server_running" /\ afterQ[j].cb = "server_stopped"

\* ---------------------------------------------------------------------------
\* C24: when the application is closed while a server is live, the terminate
\* request was sent to that server: no window close and no click on Exit ends
\* the application with a live server that was never asked to stop (Exit is
\* disabled with the form for as long as a server is live).  Closing leaves the
\* pipeline worker where it is: it is given no request to stop.
C24_CloseTerminatesLiveServer ==
  /\ []((closed /\ handleProc = "live") => termSent)
  /\ [](closed => orphans = 0)
  /\ [](handleProc = "live" => formState = "disabled")
  /\ [][(~closed /\ closed') => pc' = pc]_vars

C24_Witness ==
  closed /\ handleProc = "live" /\ termSent /\ pc = "finish2"

\* ---------------------------------------------------------------------------
RowRefreshing == Status("Refreshing Python versions via 'uv'...")

\* C25: after a refresh of the versions was requested the form is enabled again
\* in every outcome of the refresh worker: when the worker has ended and the
\* main loop has run every callback it registered, the form is enabled.
C25_RefreshAlwaysReenables ==
  (~closed /\ RowRefreshing \in console /\ rpc = "idle" /\ afterQ = <<>>) => FormEnabled

\* ---------------------------------------------------------------------------
\* C26: in every state of the form the "Create superuser" option can be
\* selected only while "Use custom user model" is set, and no run creates the
\* admin account for a request without the custom user model.
C26_SuperuserOnlyWithCustomUser ==
  /\ (~closed /\ chkSuperState = "normal") => customUserVar
  /\ superuserVar => customUserVar
  /\ Ran("createsuperuser") => data.custom

====
